---- MODULE Spec2Model ----
(***************************************************************************)
(* Model of edx2course_axis.py: the recursive course-tree walk (walk), the *)
(* policy lookup (Policy.get_metadata), the date parser (date_parse) and   *)
(* the duplicate url_name pass (fix_duplicate_url_name_vertical).          *)
(*                                                                         *)
(* Representation.  A Python string is a sequence of one-character         *)
(* strings (<<"a","b">> is 'ab'), so that split, replace, strip, join and  *)
(* the % and format conversions are computed character by character.       *)
(* Python's None, where a string may stand, is the one-element sequence    *)
(* None, whose element is no character.  The characters are those of       *)
(* ASCII, code points 1 to 127 (Chars): lxml hands out an attribute value  *)
(* of such characters as a str.  A datetime is the tuple                   *)
(* <<year, month, day, hour, minute, second, microsecond>>; None in a date *)
(* position is DNone and date_parse's 'Bad' marker is Bad.                 *)
(*                                                                         *)
(* emitter records, for each record of caxis, the node that made it, and   *)
(* probe the last direct call of Policy.get_metadata with its result.      *)
(*                                                                         *)
(* The course tree is the four variables tag, par, attrib (the etree) and  *)
(* the policy overlay.  Nodes are numbered 1..N, node 1 is the root,       *)
(* par[n] < n, and the children of n in document order are its child       *)
(* nodes in increasing number.                                             *)
(***************************************************************************)
EXTENDS Integers, Sequences, FiniteSets, TLC

VARIABLES tag, par, attrib, policy, index, caxis, stack, status, emitter, probe

vars == <<tag, par, attrib, policy, index, caxis, stack, status, emitter, probe>>

-----------------------------------------------------------------------------
(* Strings *)

None == <<"None">>

Truthy(s) == s # None /\ s # <<>>

Min2(a, b) == IF a < b THEN a ELSE b

DigitChars == <<"0", "1", "2", "3", "4", "5", "6", "7", "8", "9">>

IsDigit(c) == \E i \in 1..10 : DigitChars[i] = c

DigitVal(c) == (CHOOSE i \in 1..10 : DigitChars[i] = c) - 1

Lower(c) ==
    CASE c = "A" -> "a"
      [] c = "B" -> "b" [] c = "C" -> "c" [] c = "D" -> "d" [] c = "E" -> "e"
      [] c = "F" -> "f" [] c = "G" -> "g" [] c = "H" -> "h" [] c = "I" -> "i"
      [] c = "J" -> "j" [] c = "K" -> "k" [] c = "L" -> "l" [] c = "M" -> "m"
      [] c = "N" -> "n" [] c = "O" -> "o" [] c = "P" -> "p" [] c = "Q" -> "q"
      [] c = "R" -> "r" [] c = "S" -> "s" [] c = "T" -> "t" [] c = "U" -> "u"
      [] c = "V" -> "v" [] c = "W" -> "w" [] c = "X" -> "x" [] c = "Y" -> "y"
      [] c = "Z" -> "z"
      [] OTHER -> c

\* The characters of the model: Chars[i] is the character with code point i,
\* for the code points 1 to 127.  A string of the language cannot hold the
\* backquote, which is the element "U+0060".
Chars ==
    <<
       "", "", "", "", "", "", "", "",
       "\t", "\n", "", "\f", "\r", "", "", "",
       "", "", "", "", "", "", "", "",
       "", "", "", "", "", "", "", " ",
       "!", "\"", "#", "$", "%", "&", "'", "(",
       ")", "*", "+", ",", "-", ".", "/", "0",
       "1", "2", "3", "4", "5", "6", "7", "8",
       "9", ":", ";", "<", "=", ">", "?", "@",
       "A", "B", "C", "D", "E", "F", "G", "H",
       "I", "J", "K", "L", "M", "N", "O", "P",
       "Q", "R", "S", "T", "U", "V", "W", "X",
       "Y", "Z", "[", "\\", "]", "^", "_", "U+0060",
       "a", "b", "c", "d", "e", "f", "g", "h",
       "i", "j", "k", "l", "m", "n", "o", "p",
       "q", "r", "s", "t", "u", "v", "w", "x",
       "y", "z", "{", "|", "}", "~", "" >>

\* ord(c)
Ord(c) == CHOOSE i \in 1..127 : Chars[i] = c

\* the whitespace of str.strip() and of \s in a regular expression: blank,
\* \t, \n, \v, \f, \r
IsSpace(c) == c \in {" ", "\t", "\n", "\r", "\f", Chars[11]}

\* str(n) for a natural number
RECURSIVE Str(_)
Str(n) == IF n < 10 THEN <<DigitChars[n + 1]>>
          ELSE Str(n \div 10) \o <<DigitChars[(n % 10) + 1]>>

\* int(s) for a string of digits, blanks ignored
RECURSIVE ToInt(_)
ToInt(s) ==
    IF s = <<>> THEN 0
    ELSE IF IsDigit(s[Len(s)])
         THEN 10 * ToInt(SubSeq(s, 1, Len(s) - 1)) + DigitVal(s[Len(s)])
         ELSE ToInt(SubSeq(s, 1, Len(s) - 1))

\* sep.join(parts)
RECURSIVE Join(_, _)
Join(parts, sep) ==
    IF parts = <<>> THEN <<>>
    ELSE IF Len(parts) = 1 THEN parts[1]
    ELSE parts[1] \o sep \o Join(Tail(parts), sep)

\* s.split(c) for a one-character separator
RECURSIVE Split(_, _)
Split(s, c) ==
    IF \A i \in 1..Len(s) : s[i] # c THEN <<s>>
    ELSE LET i == CHOOSE j \in 1..Len(s) :
                      s[j] = c /\ \A k \in 1..(j - 1) : s[k] # c
         IN <<SubSeq(s, 1, i - 1)>> \o Split(SubSeq(s, i + 1, Len(s)), c)

\* s.replace(a, b) for one-character a; b is a string
RECURSIVE ReplaceChar(_, _, _)
ReplaceChar(s, a, b) ==
    IF s = <<>> THEN <<>>
    ELSE (IF s[1] = a THEN b ELSE <<s[1]>>) \o ReplaceChar(Tail(s), a, b)

\* s.replace('__', '_'): one left-to-right pass over non-overlapping matches
RECURSIVE ReplaceDoubleUnderscore(_)
ReplaceDoubleUnderscore(s) ==
    IF Len(s) < 2 THEN s
    ELSE IF s[1] = "_" /\ s[2] = "_"
         THEN <<"_">> \o ReplaceDoubleUnderscore(SubSeq(s, 3, Len(s)))
         ELSE <<s[1]>> \o ReplaceDoubleUnderscore(Tail(s))

\* s.strip()
RECURSIVE Strip(_)
Strip(s) ==
    IF s = <<>> THEN s
    ELSE IF IsSpace(s[1]) THEN Strip(Tail(s))
    ELSE IF IsSpace(s[Len(s)]) THEN Strip(SubSeq(s, 1, Len(s) - 1))
    ELSE s

StartsWith(s, p) == Len(s) >= Len(p) /\ SubSeq(s, 1, Len(p)) = p

\* '%s' % x and '{0}'.format(x) for a string or None
PyStr(x) == IF x = None THEN <<"N", "o", "n", "e">> ELSE x

\* repr(s) of a str: the quote is a double quote when s holds a single quote
\* and no double quote; the quote and the backslash are escaped, and so are
\* tab, newline, return and, as \xNN, the other control characters
Repr(s) ==
    LET HexChars == <<"0", "1", "2", "3", "4", "5", "6", "7", "8", "9",
                      "a", "b", "c", "d", "e", "f">>
        q == IF (\E i \in 1..Len(s) : s[i] = "'") /\ ~(\E i \in 1..Len(s) : s[i] = "\"")
             THEN "\"" ELSE "'"
        ReprChar(c) ==
            IF c = q \/ c = "\\" THEN <<"\\", c>>
            ELSE IF c = "\t" THEN <<"\\", "t">>
            ELSE IF c = "\n" THEN <<"\\", "n">>
            ELSE IF c = "\r" THEN <<"\\", "r">>
            ELSE IF Ord(c) < 32 \/ Ord(c) = 127
                 THEN <<"\\", "x", HexChars[(Ord(c) \div 16) + 1], HexChars[(Ord(c) % 16) + 1]>>
            ELSE <<c>>
        RECURSIVE ReprChars(_)
        ReprChars(t) == IF t = <<>> THEN <<>> ELSE ReprChar(t[1]) \o ReprChars(Tail(t))
    IN <<q>> \o ReprChars(s) \o <<q>>

\* the items of str(l) for a list l of str
RECURSIVE ReprItems(_)
ReprItems(l) ==
    IF l = <<>> THEN <<>>
    ELSE Repr(l[1])
         \o (IF Len(l) > 1 THEN <<",", " ">> ELSE <<>>) \o ReprItems(Tail(l))

\* '%s' % l for a list l of str
ReprList(l) == <<"[">> \o ReprItems(l) \o <<"]">>

-----------------------------------------------------------------------------
(* date_parse *)

DNone == <<>>

Bad == <<-1>>

MonthNames ==
    << <<"j","a","n","u","a","r","y">>, <<"f","e","b","r","u","a","r","y">>,
       <<"m","a","r","c","h">>, <<"a","p","r","i","l">>, <<"m","a","y">>,
       <<"j","u","n","e">>, <<"j","u","l","y">>, <<"a","u","g","u","s","t">>,
       <<"s","e","p","t","e","m","b","e","r">>, <<"o","c","t","o","b","e","r">>,
       <<"n","o","v","e","m","b","e","r">>, <<"d","e","c","e","m","b","e","r">> >>

LowerStr(s) == [i \in 1..Len(s) |-> Lower(s[i])]

\* the characters of s from position p, at most n of them
Peek(s, p, n) == SubSeq(s, p, Min2(Len(s), p + n - 1))

\* number of leading digits (blanks when sp) of s from p, at most n
RECURSIVE Run(_, _, _, _)
Run(s, p, n, sp) ==
    IF n = 0 \/ p > Len(s) THEN 0
    ELSE IF (sp /\ IsSpace(s[p])) \/ (~sp /\ IsDigit(s[p]))
         THEN 1 + Run(s, p + 1, n - 1, sp)
         ELSE 0

\* n, n-1, ..., 1
RECURSIVE Down(_)
Down(n) == IF n <= 0 THEN <<>> ELSE <<n>> \o Down(n - 1)

Opt(cond, len) == IF cond THEN <<len>> ELSE <<>>

\* the digits lo..hi as characters
DigitSet(lo, hi) == {DigitChars[i + 1] : i \in lo..hi}

\* The lengths that the regular expression of one format element can consume
\* at position p of s, in the order the regex engine tries them
\* (_strptime.TimeRE: %Y \d\d\d\d, %m 1[0-2]|0[1-9]|[1-9],
\*  %d 3[01]|[12]\d|0[1-9]|[1-9]| [1-9], %H 2[0-3]|[0-1]\d|\d, %M [0-5]\d|\d,
\*  %S 6[0-1]|[0-5]\d|\d, %f [0-9]{1,6}, %B the month names, blank \s+,
\*  any other character itself, all case-insensitive).
Alts(el, s, p) ==
    LET w == Peek(s, p, 2)
        c1 == IF Len(w) >= 1 THEN w[1] ELSE ""
        c2 == IF Len(w) = 2 THEN w[2] ELSE ""
        D09 == DigitSet(0, 9)
        D19 == DigitSet(1, 9)
    IN CASE el = "%Y" -> Opt(Run(s, p, 4, FALSE) = 4, 4)
         [] el = "%m" ->
              Opt((c1 = "1" /\ c2 \in DigitSet(0, 2)) \/ (c1 = "0" /\ c2 \in D19), 2)
              \o Opt(c1 \in D19, 1)
         [] el = "%d" ->
              Opt((c1 = "3" /\ c2 \in DigitSet(0, 1))
                  \/ (c1 \in DigitSet(1, 2) /\ c2 \in D09)
                  \/ (c1 = "0" /\ c2 \in D19), 2)
              \o Opt(c1 \in D19, 1)
              \o Opt(c1 = " " /\ c2 \in D19, 2)
         [] el = "%H" ->
              Opt((c1 = "2" /\ c2 \in DigitSet(0, 3))
                  \/ (c1 \in DigitSet(0, 1) /\ c2 \in D09), 2)
              \o Opt(c1 \in D09, 1)
         [] el = "%M" ->
              Opt(c1 \in DigitSet(0, 5) /\ c2 \in D09, 2) \o Opt(c1 \in D09, 1)
         [] el = "%S" ->
              Opt((c1 = "6" /\ c2 \in DigitSet(0, 1))
                  \/ (c1 \in DigitSet(0, 5) /\ c2 \in D09), 2)
              \o Opt(c1 \in D09, 1)
         [] el = "%f" -> Down(Run(s, p, 6, FALSE))
         [] el = "%B" ->
              LET hit == {m \in 1..12 :
                            LowerStr(Peek(s, p, Len(MonthNames[m]))) = MonthNames[m]}
              IN IF hit = {} THEN <<>>
                 ELSE <<Len(MonthNames[CHOOSE m \in hit : TRUE])>>
         [] el = " " -> Down(Run(s, p, Len(s), TRUE))
         [] OTHER -> Opt(c1 # "" /\ Lower(c1) = Lower(el), 1)

NoMatch == [ok |-> FALSE, end |-> 0, Y |-> 1900, m |-> 1, d |-> 1,
            H |-> 0, M |-> 0, S |-> 0, f |-> 0]

\* the value a matched directive contributes (_strptime's group conversions)
Bind(acc, el, txt) ==
    LET v == IF el = "%B" THEN CHOOSE m \in 1..12 : LowerStr(txt) = MonthNames[m]
             ELSE IF el = "%f" THEN ToInt(txt \o [i \in 1..(6 - Len(txt)) |-> "0"])
             ELSE IF el \in {"%Y", "%m", "%d", "%H", "%M", "%S"} THEN ToInt(txt)
             ELSE 0
    IN CASE el = "%Y" -> [acc EXCEPT !.Y = v]
         [] el \in {"%m", "%B"} -> [acc EXCEPT !.m = v]
         [] el = "%d" -> [acc EXCEPT !.d = v]
         [] el = "%H" -> [acc EXCEPT !.H = v]
         [] el = "%M" -> [acc EXCEPT !.M = v]
         [] el = "%S" -> [acc EXCEPT !.S = v]
         [] el = "%f" -> [acc EXCEPT !.f = v]
         [] OTHER -> acc

\* re.match of the format's regular expression, not anchored at the end of
\* the string: every way to match, in the engine's backtracking order, so
\* that the first one is the match the engine returns
RECURSIVE Match(_, _, _, _, _)
RECURSIVE TryAlts(_, _, _, _, _, _, _)
Match(fmt, i, s, p, acc) ==
    IF i > Len(fmt) THEN <<[acc EXCEPT !.ok = TRUE, !.end = p]>>
    ELSE TryAlts(fmt, i, s, p, acc, Alts(fmt[i], s, p), 1)

TryAlts(fmt, i, s, p, acc, alts, k) ==
    IF k > Len(alts) THEN <<>>
    ELSE Match(fmt, i + 1, s, p + alts[k],
               Bind(acc, fmt[i], SubSeq(s, p, p + alts[k] - 1)))
         \o TryAlts(fmt, i, s, p, acc, alts, k + 1)

IsLeap(y) == (y % 4 = 0) /\ ((y % 100 # 0) \/ (y % 400 = 0))

DaysInMonth(y, m) ==
    IF m = 2 THEN (IF IsLeap(y) THEN 29 ELSE 28)
    ELSE IF m \in {4, 6, 9, 11} THEN 30 ELSE 31

\* datetime.datetime.strptime(s, fmt): a datetime, or DNone for ValueError
strptime(s, fmt) ==
    LET First(ms) == IF ms = <<>> THEN NoMatch ELSE ms[1]
        Checked(r) ==
            IF r.ok /\ r.end = Len(s) + 1 /\ r.Y >= 1 /\ r.d <= DaysInMonth(r.Y, r.m)
               /\ r.S <= 59
            THEN <<r.Y, r.m, r.d, r.H, r.M, r.S, r.f>>
            ELSE DNone
    IN Checked(First(Match(fmt, 1, s, 1, NoMatch)))

formats ==
    << <<"%Y","-","%m","-","%d","T","%H",":","%M",":","%S","Z">>,
       <<"%Y","-","%m","-","%d","T","%H",":","%M",":","%S",".","%f">>,
       <<"%Y","-","%m","-","%d","T","%H",":","%M",":","%S">>,
       <<"%Y","-","%m","-","%d","T","%H",":","%M",":","%S","+","0","0",":","0","0">>,
       <<"%Y","-","%m","-","%d","T","%H",":","%M">>,
       <<"%B"," ","%d",","," ","%Y">>,
       <<"%B"," ","%d",","," ","%H",":","%M",","," ","%Y">>,
       <<"%B"," ","%d",","," ","%Y",","," ","%H",":","%M">>,
       <<"%B"," ","%d"," ","%Y",","," ","%H",":","%M">>,
       <<"%B"," ","%d"," ","%Y">>,
       <<"%B"," ","%d"," ","%H",":","%M",","," ","%Y">> >>

RECURSIVE TryFormats(_, _)
TryFormats(s, k) ==
    IF k > Len(formats) THEN DNone
    ELSE LET OrNext(r) == IF r # DNone THEN r ELSE TryFormats(s, k + 1)
         IN OrNext(strptime(s, formats[k]))

date_parse(datestr, retbad) ==
    IF ~Truthy(datestr) THEN DNone
    ELSE LET s == IF datestr[1] = "\"" /\ datestr[Len(datestr)] = "\""
                  THEN SubSeq(datestr, 2, Len(datestr) - 1)
                  ELSE datestr
             OrBad(r) == IF r # DNone THEN r
                         ELSE IF retbad THEN Bad ELSE DNone
         IN OrBad(TryFormats(s, 1))

\* a < b for two datetimes
RECURSIVE TupleLess(_, _)
TupleLess(a, b) ==
    IF a = <<>> THEN FALSE
    ELSE IF a[1] # b[1] THEN a[1] < b[1]
    ELSE TupleLess(Tail(a), Tail(b))

-----------------------------------------------------------------------------
(* '%f' % float(s).  A natural number of any size is the sequence of its   *)
(* limbs, base 10000, most significant first and without leading zero      *)
(* limbs (zero is the empty sequence); Digs is its sequence of decimal     *)
(* digits.  A double is a significand m below 2^53 and an exponent q, of   *)
(* value m * 2^q; its sign is kept beside it.                              *)

\* '%f' % float(weight) for a str: ok is FALSE where float raises ValueError,
\* else text is the number written with six decimals
FloatFormat(weight) ==
    LET
        Base == 10000

        Zeros(n) == [i \in 1..n |-> 0]

        \* a without its leading zeros
        BNorm(a) ==
            IF \A i \in 1..Len(a) : a[i] = 0 THEN <<>>
            ELSE SubSeq(a, CHOOSE i \in 1..Len(a) : a[i] # 0 /\ \A j \in 1..(i - 1) : a[j] = 0,
                        Len(a))

        \* the number of the decimal digits d
        FromDigs(d) ==
            LET p == Zeros((4 - (Len(d) % 4)) % 4) \o d
            IN BNorm([i \in 1..(Len(p) \div 4) |->
                         p[4 * i - 3] * 1000 + p[4 * i - 2] * 100 + p[4 * i - 1] * 10 + p[4 * i]])

        \* the decimal digits of a
        Digs(a) ==
            BNorm([j \in 1..(4 * Len(a)) |->
                      (a[(j + 3) \div 4] \div 10^(3 - ((j - 1) % 4))) % 10])

        \* a * 10^k
        BShift(a, k) == FromDigs(Digs(a) \o Zeros(k))

        \* -1, 0 or 1 as a is below, equal to or above b
        BCmp(a, b) ==
            IF Len(a) # Len(b) THEN (IF Len(a) < Len(b) THEN -1 ELSE 1)
            ELSE IF a = b THEN 0
            ELSE LET i == CHOOSE j \in 1..Len(a) :
                              a[j] # b[j] /\ \A k \in 1..(j - 1) : a[k] = b[k]
                 IN IF a[i] < b[i] THEN -1 ELSE 1

        \* the limbs of the natural number n
        RECURSIVE BNat(_)
        BNat(n) == IF n = 0 THEN <<>> ELSE Append(BNat(n \div Base), n % Base)

        \* the natural number of a, one limb or two
        BInt(a) == IF a = <<>> THEN 0 ELSE IF Len(a) = 1 THEN a[1] ELSE a[1] * Base + a[2]

        \* the last k limbs of the number a, which is padded with zero limbs
        Low(a, k) == IF Len(a) >= k THEN SubSeq(a, Len(a) - k + 1, Len(a)) ELSE Zeros(k - Len(a)) \o a

        \* the limbs of a above its last k limbs
        High(a, k) == SubSeq(a, 1, Len(a) - k)

        \* lo is the product of the last k limbs: its limbs above the k-th are the
        \* carry into the product of the limbs hi
        RECURSIVE BTimesPlus(_, _, _)
        BTimesJoin(hi, c, lo, k) ==
            IF Len(lo) <= k THEN BTimesPlus(hi, c, 0) \o Low(lo, k)
            ELSE BTimesPlus(hi, c, BInt(High(lo, k))) \o Low(lo, k)

        \* a * c + d for natural numbers c and d up to 2^17, by halves of a
        BTimesPlus(a, c, d) ==
            IF a = <<>> THEN BNat(d)
            ELSE IF Len(a) = 1 THEN BNat(a[1] * c + d)
            ELSE BNorm(BTimesJoin(High(a, Len(a) \div 2), c,
                                  BTimesPlus(Low(a, Len(a) \div 2), c, d), Len(a) \div 2))

        \* a * 2^n, by halves of n
        RECURSIVE BTimesPow2(_, _)
        BTimesPow2(a, n) ==
            IF a = <<>> THEN <<>>
            ELSE IF n > 17 THEN BTimesPow2(BTimesPow2(a, n \div 2), n - (n \div 2))
            ELSE BTimesPlus(a, 2^n, 0)

        \* a - b for a >= b: the limb at Base^(j-1) borrows when the j - 1 limbs
        \* below it are less in a than in b
        BSub(a, b) ==
            BNorm([i \in 1..Len(a) |->
                      (a[i] - Low(b, Len(a))[i]
                       - (IF BCmp(Low(a, Len(a) - i), Low(b, Len(a) - i)) < 0 THEN 1 ELSE 0)
                       + Base) % Base])

        \* a + 1
        BSucc(a) == BTimesPlus(a, 1, 1)

        BOdd(a) == a # <<>> /\ a[Len(a)] % 2 = 1

        \* the quotient d and the remainder r of r by b, for r below ten times b
        BDigitOf(r, b, d) == [d |-> d, r |-> BSub(r, BTimesPlus(b, d, 0))]

        BDigit(r, b) ==
            BDigitOf(r, b, CHOOSE d \in 0..9 :
                               /\ BCmp(BTimesPlus(b, d, 0), r) <= 0
                               /\ BCmp(BTimesPlus(b, d + 1, 0), r) > 0)

        BDivStep(i, q, dr) == [i |-> i + 1, q |-> Append(q, dr.d), r |-> dr.r]

        \* long division by b over the decimal digits ad: st holds the quotient
        \* digits and the remainder of the first st.i - 1 digits
        RECURSIVE BDivFrom(_, _, _)
        BDivFrom(ad, b, st) ==
            IF st.i > Len(ad) THEN [q |-> FromDigs(st.q), r |-> st.r]
            ELSE BDivFrom(ad, b, BDivStep(st.i, st.q,
                                          BDigit(BTimesPlus(st.r, 10, ad[st.i]), b)))

        \* the quotient q and the remainder r of a by b > 0: the digits of a short
        \* of the length of b make a number below b
        BDivDigs(ad, n, b) ==
            IF Len(ad) < n THEN [q |-> <<>>, r |-> FromDigs(ad)]
            ELSE BDivFrom(ad, b, [i |-> n, q |-> <<>>, r |-> FromDigs(SubSeq(ad, 1, n - 1))])

        BDivMod(a, b) == BDivDigs(Digs(a), Len(Digs(b)), b)

        \* the quotient dm.q, rounded up when the remainder is above the half of b,
        \* and to the even number when it is the half
        BRoundUp(dm, b) ==
            IF \/ BCmp(BTimesPlus(dm.r, 2, 0), b) > 0
               \/ (BCmp(BTimesPlus(dm.r, 2, 0), b) = 0 /\ BOdd(dm.q))
            THEN BSucc(dm.q) ELSE dm.q

        \* a / b rounded to the nearest natural number, a tie to the even one
        BRoundDiv(a, b) == BRoundUp(BDivMod(a, b), b)

        Pow2_52 == BTimesPow2(<<1>>, 52)

        Pow2_53 == BTimesPow2(<<1>>, 53)

        Infinity == [inf |-> TRUE, nan |-> FALSE, m |-> <<>>, q |-> 0]

        NaN == [inf |-> FALSE, nan |-> TRUE, m |-> <<>>, q |-> 0]

        Double(m, q) == [inf |-> FALSE, nan |-> FALSE, m |-> m, q |-> q]

        \* the significand m rounded for the exponent q: 2^53 is 2^52 one exponent
        \* up, and a value beyond the largest double, (2^53 - 1) * 2^971, is infinite
        Normal(m, q) ==
            IF m = Pow2_53
            THEN (IF q + 1 > 971 THEN Infinity ELSE Double(Pow2_52, q + 1))
            ELSE IF q > 971 THEN Infinity
            ELSE Double(m, q)

        \* 2^e <= a / b
        Pow2Le(e, a, b) ==
            IF e >= 0 THEN BCmp(BTimesPow2(b, e), a) <= 0
            ELSE BCmp(b, BTimesPow2(a, -e)) <= 0

        \* the e with 2^e <= a / b < 2^(e+1), for a, b > 0 of la and lb decimal
        \* digits: a / b lies between 10^(la - lb - 1) and 10^(la - lb + 1), and
        \* log2(10) is 3.32193 nearly
        BLog2Between(a, b, lo, hi) ==
            CHOOSE e \in lo..hi : Pow2Le(e, a, b) /\ ~Pow2Le(e + 1, a, b)

        BLog2Digs(a, b, la, lb) ==
            BLog2Between(a, b, ((la - lb - 1) * 33220) \div 10000 - 1,
                               ((la - lb + 1) * 33220) \div 10000 + 1)

        BLog2(a, b) == BLog2Digs(a, b, Len(Digs(a)), Len(Digs(b)))

        \* the least exponent of a double
        MinExp(q) == IF q < -1074 THEN -1074 ELSE q

        \* a / b rounded to a significand for the exponent q
        Rounded(a, b, q) ==
            Normal(IF q >= 0 THEN BRoundDiv(a, BTimesPow2(b, q))
                   ELSE BRoundDiv(BTimesPow2(a, -q), b), q)

        \* the double nearest to a / b, for a, b > 0: 53 bits from the leading one
        Nearest(a, b) == Rounded(a, b, MinExp(BLog2(a, b) - 52))

        \* the double nearest to n * 10^k, for the decimal digits n of a number
        ToDouble(n, k) ==
            IF n = <<>> THEN Double(<<>>, 0)
            ELSE IF Len(n) + k > 309 THEN Infinity
            ELSE IF Len(n) + k < -324 THEN Double(<<>>, 0)
            ELSE IF k >= 0 THEN Nearest(FromDigs(n \o Zeros(k)), <<1>>)
            ELSE Nearest(FromDigs(n), FromDigs(<<1>> \o Zeros(-k)))

        \* the number of digits of s from position p on
        DigitRun(s, p) ==
            CHOOSE n \in 0..(Len(s) + 1 - p) :
                /\ \A i \in p..(p + n - 1) : IsDigit(s[i])
                /\ p + n > Len(s) \/ ~IsDigit(s[p + n])

        DigitVals(s) == [i \in 1..Len(s) |-> DigitVal(s[i])]

        IsSign(c) == c \in {"+", "-"}

        DigitStr(a) == [i \in 1..Len(a) |-> DigitChars[a[i] + 1]]

        \* the value of the exponent digits ds of a literal of len characters.
        \* The literal has at most len digits, so that an exponent above
        \* len + 400 gives the double that len + 400 gives, infinity or zero;
        \* an exponent of ten digits or more is above it
        ExpDigs(d, cap) ==
            IF Len(d) > 9 THEN cap
            ELSE IF d = <<>> THEN 0
            ELSE Min2(ToInt(DigitStr(d)), cap)

        ExpVal(neg, ds, len) ==
            (IF neg THEN -1 ELSE 1) * ExpDigs(BNorm(DigitVals(ds)), len + 400)

        NotAFloat == [ok |-> FALSE]

        \* the exponent part of the float literal t, from position p to the end:
        \* e or E, a sign or none (the digits start at sp), one digit at least
        FloatExpAt(t, p, sp) ==
            IF /\ Lower(t[p]) = "e"
               /\ DigitRun(t, sp) >= 1
               /\ sp + DigitRun(t, sp) = Len(t) + 1
            THEN [ok |-> TRUE, e |-> ExpVal(sp = p + 2 /\ t[p + 1] = "-", SubSeq(t, sp, Len(t)), Len(t))]
            ELSE NotAFloat

        FloatExp(t, p) ==
            FloatExpAt(t, p, IF p + 1 <= Len(t) /\ IsSign(t[p + 1]) THEN p + 2 ELSE p + 1)

        \* the literal with ni digits before the point, or before the exponent at
        \* p when there is no point, nf digits after it, and the rest of t from p
        FloatParts(t, ni, nf, p) ==
            IF ni + nf = 0 THEN NotAFloat
            ELSE IF p > Len(t)
            THEN [ok |-> TRUE, k |-> -nf,
                  n |-> BNorm(DigitVals(SubSeq(t, 1, ni) \o SubSeq(t, ni + 2, ni + 1 + nf)))]
            ELSE LET WithExp(ex) ==
                         IF ex.ok
                         THEN [ok |-> TRUE, k |-> ex.e - nf,
                               n |-> BNorm(DigitVals(SubSeq(t, 1, ni)
                                                     \o SubSeq(t, ni + 2, ni + 1 + nf)))]
                         ELSE NotAFloat
                 IN WithExp(FloatExp(t, p))

        FloatPoint(t, ni, point) ==
            IF point THEN FloatParts(t, ni, DigitRun(t, ni + 2), ni + 2 + DigitRun(t, ni + 2))
            ELSE FloatParts(t, ni, 0, ni + 1)

        \* the unsigned decimal literal t: digits with or without a point, one
        \* digit at least, and an exponent or none; its value is n * 10^k
        FloatNumber(t) ==
            FloatPoint(t, DigitRun(t, 1),
                       DigitRun(t, 1) + 1 <= Len(t) /\ t[DigitRun(t, 1) + 1] = ".")

        \* the double of the number num behind the sign
        FloatValue(neg, num) ==
            IF num.ok THEN [ok |-> TRUE, neg |-> neg, x |-> ToDouble(num.n, num.k)]
            ELSE NotAFloat

        \* the literal u behind the sign, lu in lower case
        FloatLiteral(neg, u, lu) ==
            IF lu \in {<<"i", "n", "f">>, <<"i", "n", "f", "i", "n", "i", "t", "y">>}
            THEN [ok |-> TRUE, neg |-> neg, x |-> Infinity]
            ELSE IF lu = <<"n", "a", "n">> THEN [ok |-> TRUE, neg |-> neg, x |-> NaN]
            ELSE FloatValue(neg, FloatNumber(u))

        FloatUnsigned(neg, u) == FloatLiteral(neg, u, LowerStr(u))

        FloatSigned(t) ==
            IF t # <<>> /\ IsSign(t[1]) THEN FloatUnsigned(t[1] = "-", Tail(t))
            ELSE FloatUnsigned(FALSE, t)

        \* float(s) for a str s: ok is FALSE where float raises ValueError; else the
        \* sign neg and the double x.  Whitespace around the literal is dropped;
        \* inf, infinity and nan are read in any case
        float(s) == FloatSigned(Strip(s))

        \* the decimal digits r of a number of millionths, written with six decimals
        SixDecimals(r) ==
            DigitStr(IF Len(r) > 6 THEN SubSeq(r, 1, Len(r) - 6) ELSE <<0>>)
            \o <<".">>
            \o DigitStr(IF Len(r) > 6 THEN SubSeq(r, Len(r) - 5, Len(r)) ELSE Zeros(6 - Len(r)) \o r)

        \* '%f' % x for a finite x > 0: six decimals of the exact value, a tie to
        \* the even digit
        FormatFinite(x) ==
            IF x.q >= 0 THEN SixDecimals(Digs(BTimesPow2(x.m, x.q)) \o Zeros(6))
            ELSE SixDecimals(Digs(BRoundDiv(BShift(x.m, 6), BTimesPow2(<<1>>, -x.q))))

        \* '%f' % x
        FormatF(neg, x) ==
            IF x.nan THEN <<"n", "a", "n">>
            ELSE (IF neg THEN <<"-">> ELSE <<>>)
                 \o (IF x.inf THEN <<"i", "n", "f">>
                     ELSE IF x.m = <<>> THEN SixDecimals(<<>>)
                     ELSE FormatFinite(x))
        Formatted(f) == IF f.ok THEN [ok |-> TRUE, text |-> FormatF(f.neg, f.x)] ELSE NotAFloat
    IN Formatted(float(weight))

-----------------------------------------------------------------------------
(* The etree and the policy overlay *)

T_course == <<"c", "o", "u", "r", "s", "e">>

T_chapter == <<"c", "h", "a", "p", "t", "e", "r">>

T_sequential == <<"s", "e", "q", "u", "e", "n", "t", "i", "a", "l">>

T_problemset == <<"p", "r", "o", "b", "l", "e", "m", "s", "e", "t">>

T_videosequence == <<"v", "i", "d", "e", "o", "s", "e", "q", "u", "e", "n", "c", "e">>

T_proctor == <<"p", "r", "o", "c", "t", "o", "r">>

T_randomize == <<"r", "a", "n", "d", "o", "m", "i", "z", "e">>

T_vertical == <<"v", "e", "r", "t", "i", "c", "a", "l">>

T_problem == <<"p", "r", "o", "b", "l", "e", "m">>

T_video == <<"v", "i", "d", "e", "o">>

T_html == <<"h", "t", "m", "l">>

T_discussion == <<"d", "i", "s", "c", "u", "s", "s", "i", "o", "n">>

T_customtag == <<"c", "u", "s", "t", "o", "m", "t", "a", "g">>

T_poll_question == <<"p", "o", "l", "l", "_", "q", "u", "e", "s", "t", "i", "o", "n">>

T_combinedopenended == <<"c", "o", "m", "b", "i", "n", "e", "d", "o", "p", "e", "n", "e", "n", "d", "e", "d">>

T_metadata == <<"m", "e", "t", "a", "d", "a", "t", "a">>

T_source == <<"s", "o", "u", "r", "c", "e">>

T_iframe == <<"i", "f", "r", "a", "m", "e">>

T_p == <<"p">>

T_policy == <<"p", "o", "l", "i", "c", "y">>

T_grading_policy == <<"g", "r", "a", "d", "i", "n", "g", "_", "p", "o", "l", "i", "c", "y">>

\* the tag position of a comment node, whose str() starts with '<!--'
T_comment == <<"<", "!", "-", "-">>

S_null == <<"n", "u", "l", "l">>

S_false == <<"f", "a", "l", "s", "e">>

S_no_url_name == <<"<", "n", "o", "_", "u", "r", "l", "_", "n", "a", "m", "e", ">">>

S_course_slash == <<"c", "o", "u", "r", "s", "e", "/">>

S_1_0 == <<"1", ".", "0">>

S_vertical_suffix == <<"_", "v", "e", "r", "t", "i", "c", "a", "l">>

FORCE_NO_HIDE == FALSE

InheritedSettings == {"format", "hide_from_toc", "start", "due"}

org == <<"M", "I", "T", "x">>

course == <<"6", "x">>

N == Len(tag)

Nodes == 1..N

\* list(element): the children in document order
Children(n) == SelectSeq([i \in 1..N |-> i], LAMBDA m : par[m] = n)

\* element.attrib of an element without attributes: None stands for an
\* attribute that is absent
NoAttrs ==
    [url_name |-> None, url_name_orig |-> None, display_name |-> None,
     hide_from_toc |-> None, start |-> None, due |-> None, format |-> None,
     youtube |-> None, youtube_id_1_0 |-> None, weight |-> None, src |-> None]

\* element.get(k, default) on the attributes at
XmlGet(at, n, k, default) == IF at[n][k] = None THEN default ELSE at[n][k]

\* Policy.semester, line 99: the keys of the policy file that start with course/
CourseKeys == {x \in DOMAIN policy : StartsWith(x, S_course_slash)}

\* Policy.semester, line 100 raises AssertionError unless there is one such key
SemesterRaises == Cardinality(CourseKeys) # 1

\* Policy.semester, line 101
semester ==
    LET k == CHOOSE x \in CourseKeys : TRUE
    IN SubSeq(k, Len(S_course_slash) + 1, Len(k))

\* cid of make_axis
course_id == Join(<<org, course, semester>>, <<"/">>)

\* the policy key of a node
PKey(at, xml) ==
    tag[xml] \o <<"/">>
    \o XmlGet(at, xml, "url_name", XmlGet(at, xml, "url_name_orig", S_no_url_name))

\* a lookup that asks the overlay before the element's own attribute
RECURSIVE get_metadataOverlayFirst(_, _, _, _, _)
get_metadataOverlayFirst(at, xml, setting, default, parent) ==
    LET val == at[xml][setting]
        pkey == PKey(at, xml)
    IN IF pkey \in DOMAIN policy /\ setting \in DOMAIN policy[pkey]
       THEN policy[pkey][setting]
       ELSE IF parent /\ val # None /\ val # S_null
               /\ (setting \in InheritedSettings /\ val # <<>>)
       THEN val
       ELSE IF setting \notin InheritedSettings
       THEN default
       ELSE IF par[xml] # 0
       THEN get_metadataOverlayFirst(at, par[xml], setting, default, TRUE)
       ELSE None

\* Policy.get_metadata(xml, setting, default, parent) on the attributes at.
\* A call that climbs past the root falls off the end of the function and
\* returns None.
RECURSIVE get_metadata(_, _, _, _, _)
get_metadata(at, xml, setting, default, parent) ==
    LET val == at[xml][setting]
        pkey == PKey(at, xml)
    IN IF parent /\ val # None /\ val # S_null
          /\ (setting \in InheritedSettings /\ val # <<>>)
       THEN val
       ELSE IF pkey \in DOMAIN policy /\ setting \in DOMAIN policy[pkey]
       THEN policy[pkey][setting]
       ELSE IF setting \notin InheritedSettings
       THEN default
       ELSE IF par[xml] # 0
       THEN get_metadata(at, par[xml], setting, default, TRUE)
       ELSE None

\* get_from_parent(xml, attr, default)
RECURSIVE get_from_parent(_, _, _, _)
get_from_parent(at, xml, attr, default) ==
    IF par[xml] # 0
    THEN IF at[par[xml]][attr] # None
         THEN at[par[xml]][attr]
         ELSE get_from_parent(at, par[xml], attr, default)
    ELSE default

-----------------------------------------------------------------------------
(* walk: the computations of one element *)

\* lines 314-329: url_name, url_name_orig, or the 2012 display_name convention
ResolveUrlName(at, n) ==
    LET u == XmlGet(at, n, "url_name", XmlGet(at, n, "url_name_orig", <<>>))
        dn == at[n]["display_name"]
    IN IF Truthy(u) \/ dn = None THEN u
       ELSE ReplaceDoubleUnderscore(
              ReplaceChar(
                ReplaceChar(
                  ReplaceChar(
                    ReplaceChar(
                      ReplaceChar(Strip(dn), " ", <<"_">>),
                      ":", <<"_">>),
                    ".", <<"_">>),
                  "(", <<"_">>),
                ")", <<"_">>))

\* lines 334-345: the element is hidden
IsHidden(at, n) ==
    LET hide == get_metadata(at, n, "hide_from_toc", None, FALSE)
    IN ~FORCE_NO_HIDE /\ hide # None /\ hide # S_false

\* lines 353-356: the rate:id entries of the youtube attribute whose rate is 1.0
YtidEntries(data) ==
    LET parts == Split(ReplaceChar(data, " ", <<>>), ",")
        zs == [i \in 1..Len(parts) |-> Split(parts[i], ":")]
    IN SelectSeq(zs, LAMBDA z : z[1] = S_1_0)

\* line 356 raises IndexError on a 1.0 entry without a colon
YtidRaises(at, n) ==
    /\ tag[n] = T_video
    /\ Truthy(XmlGet(at, n, "youtube", <<>>))
    /\ \E i \in 1..Len(YtidEntries(at[n]["youtube"])) :
           Len(YtidEntries(at[n]["youtube"])[i]) < 2

\* line 362: '{"ytid": "%s"}' % data
YtidBlob(s) ==
    <<"{", "\"", "y", "t", "i", "d", "\"", ":", " ", "\"">> \o s \o <<"\"", "}">>

\* lines 348-362: data of a video element (None for any other element)
VideoData(at, n) ==
    IF tag[n] # T_video THEN None
    ELSE LET d0 == XmlGet(at, n, "youtube", <<>>)
             sel == IF Truthy(d0) THEN YtidEntries(d0) ELSE <<>>
             ytid == [i \in 1..Len(sel) |-> sel[i][2]]
         IN IF ytid # <<>> THEN YtidBlob(ReprList(ytid))
            ELSE IF Truthy(d0) THEN YtidBlob(d0)
            ELSE LET d1 == XmlGet(at, n, "youtube_id_1_0", <<>>)
                 IN IF Truthy(d1) THEN YtidBlob(d1) ELSE d1

\* lines 364-371: the data of a problem with a weight, '{"weight": %f}' of
\* its float; a weight that float does not read is logged and data is left
\* as it was
WeightData(at, n, data) ==
    IF tag[n] = T_problem /\ Truthy(at[n]["weight"])
    THEN LET Written(f) ==
                 IF f.ok
                 THEN <<"{", "\"", "w", "e", "i", "g", "h", "t", "\"", ":", " ">>
                      \o f.text \o <<"}">>
                 ELSE data
         IN Written(FloatFormat(at[n]["weight"]))
    ELSE data

\* element.find('.//' + tg): the first descendant of n with the tag tg in
\* document order, 0 for None
Find(n, tg) ==
    LET RECURSIVE Descendants(_, _)
        \* the descendants of m in document order, from its k-th child on
        Descendants(m, k) ==
            IF k > Len(Children(m)) THEN <<>>
            ELSE <<Children(m)[k]>> \o Descendants(Children(m)[k], 1)
                 \o Descendants(m, k + 1)
        below == Descendants(n, 1)
    IN IF \A i \in 1..Len(below) : tag[below[i]] # tg THEN 0
       ELSE below[CHOOSE i \in 1..Len(below) :
                     /\ tag[below[i]] = tg
                     /\ \A j \in 1..(i - 1) : tag[below[j]] # tg]

\* sub in s
Contains(s, sub) ==
    \E i \in 1..(Len(s) - Len(sub) + 1) : SubSeq(s, i, i + Len(sub) - 1) = sub

S_youtube_embed == <<"h", "t", "t", "p", "s", ":", "/", "/", "w", "w", "w", ".", "y", "o", "u", "t", "u", "b", "e", ".", "c", "o", "m", "/", "e", "m", "b", "e", "d", "/">>

\* re.search('embed/([^"/?]+)', s): None when nothing matches, else
\* group(1) of the leftmost match, as long as it can be
EmbedId(s) ==
    LET S_embed == <<"e", "m", "b", "e", "d", "/">>
        IsIdChar(c) == c \notin {"\"", "/", "?"}
        starts == {i \in 1..(Len(s) - Len(S_embed)) :
                     /\ SubSeq(s, i, i + Len(S_embed) - 1) = S_embed
                     /\ IsIdChar(s[i + Len(S_embed)])}
        p == (CHOOSE i \in starts : \A j \in starts : i <= j) + Len(S_embed)
    IN IF starts = {} THEN None
       ELSE SubSeq(s, p, CHOOSE e \in p..Len(s) :
                            /\ \A i \in p..e : IsIdChar(s[i])
                            /\ e = Len(s) \/ ~IsIdChar(s[e + 1]))

\* lines 373-382: the data of an html element with an iframe below it
IframeData(at, n, data) ==
    IF tag[n] = T_html /\ Find(n, T_iframe) # 0
    THEN LET src == XmlGet(at, Find(n, T_iframe), "src", <<>>)
         IN IF Contains(src, S_youtube_embed) /\ EmbedId(src) # None
            THEN YtidBlob(EmbedId(src))
            ELSE data
    ELSE data

\* lines 347-382: data, which is None on entry (line 331)
Data(at, n) == IframeData(at, n, WeightData(at, n, VideoData(at, n)))

\* line 389: unicode(s) of a str of ASCII characters has the characters of s
unicode(s) == s

\* line 390, fix_unicode.fix_bad_unicode (imported at line 52; the module is
\* not in the source tree): a text of ASCII characters is returned as it is.
\* With such a text lines 389-390 do not raise, so that the handler of
\* lines 391-395 is never entered
fix_bad_unicode(text) == text

\* lines 387-399: the display name
DisplayName(at, n, url_name) ==
    LET pdn == get_metadata(at, n, "display_name", None, FALSE)
    IN IF pdn # None THEN pdn
       ELSE fix_bad_unicode(unicode(XmlGet(at, n, "display_name", url_name)))

\* lines 401-406
ResolveStart(at, n) == date_parse(get_metadata(at, n, "start", <<>>, TRUE), FALSE)

\* line 408 raises TypeError: None < datetime
StartRaises(start, parent_start) == parent_start # DNone /\ start = DNone

\* lines 408-415
ClampStart(start, parent_start) ==
    IF parent_start # DNone /\ TupleLess(start, parent_start)
    THEN parent_start
    ELSE start

\* a walk that keeps a bad own due string on the element
DropBadDueNever(at, n) == at

\* lines 417-419: a bad own due string is dropped from the element
DropBadDue(at, n) ==
    IF date_parse(at[n]["due"], TRUE) = Bad
    THEN [at EXCEPT ![n]["due"] = <<>>]
    ELSE at

\* lines 421-426
ResolveDue(at, n) == date_parse(get_metadata(at, n, "due", <<>>, TRUE), FALSE)

\* lines 432-437
ResolveFormat(at, n) ==
    XmlGet(at, n, "format", get_metadata(at, n, "format", <<>>, FALSE))

SeqTags == {T_problemset, T_sequential, T_videosequence, T_proctor, T_randomize}

TerminalTags == {T_html, T_problem, T_discussion, T_customtag, T_poll_question,
                 T_combinedopenended, T_metadata}

\* line 452 raises IndexError: paths[0] of an empty list
PathsRaises(tg, paths) == tg \in SeqTags /\ paths = <<>>

\* a container that keeps the last segment of the inherited path, not the first
ComputePathsLast(tg, paths, url_name, seq_num) ==
    IF tg = T_chapter THEN <<url_name>>
    ELSE IF tg \in SeqTags THEN <<paths[Len(paths)], url_name>>
    ELSE paths \o <<Str(seq_num)>>

\* lines 448-456
ComputePaths(tg, paths, url_name, seq_num) ==
    IF tg = T_chapter THEN <<url_name>>
    ELSE IF tg \in SeqTags THEN <<paths[1], url_name>>
    ELSE paths \o <<Str(seq_num)>>

\* lines 450-451
ComputeSeqType(tg, seq_type) == IF tg \in SeqTags THEN tg ELSE seq_type

\* lines 459-465
ModuleId(tg, url_name, seq_type, paths) ==
    IF tg = T_html
    THEN Join(<<org, course, PyStr(seq_type),
                Join(SubSeq(paths, 2, Min2(3, Len(paths))), <<"/">>)>>, <<"/">>)
    ELSE Join(<<org, course, tg, url_name>>, <<"/">>)

\* line 468
PathStr(paths) == <<"/">> \o Join(paths, <<"/">>)

\* lines 469-473
Axel(cid, idx, url_name, category, gformat, start, due, name, path, mid, data, chap) ==
    [course_id |-> cid, index |-> idx, url_name |-> url_name,
     category |-> category, gformat |-> gformat, start |-> start, due |-> due,
     name |-> name, path |-> path, module_id |-> mid, data |-> data,
     chapter_mid |-> chap]

\* lines 492-495; line 493 raises UnboundLocalError when no record was made
ChapterRaises(tg, url_name) == tg = T_chapter /\ ~Truthy(url_name)

\* a chapter that hands down the chapter it was given
TheChapterKept(tg, module_id, chapter) == chapter

TheChapter(tg, module_id, chapter) == IF tg = T_chapter THEN module_id ELSE chapter

\* line 504
InheritSeqNum(tg, url_name) == tg = T_vertical /\ ~Truthy(url_name)

\* lines 508-509: the child is walked
IsWalked(c) == tag[c] # T_comment /\ tag[c] \notin {T_discussion, T_source}

-----------------------------------------------------------------------------
(* walk: the recursion, one frame of stack per active call *)

\* a call walk(element, ..., seq_num, paths, seq_type, parent_start, parent,
\* chapter) about to run; data and start are None on entry (lines 331-332)
Frame(n, seq_num, paths, seq_type, parent_start, parent, chapter) ==
    [node |-> n, seq_num |-> seq_num, paths |-> paths, seq_type |-> seq_type,
     parent_start |-> parent_start, parent |-> parent, chapter |-> chapter,
     pc |-> "enter", k |-> 1, url_name |-> <<>>, start |-> DNone,
     the_chapter |-> None, inherit_seq_num |-> FALSE]

\* a counter that is also advanced for the element's tag
NextIndexTwice(i) == i + 2

\* line 475
NextIndex(i) == i + 1

\* lines 497-506: the frame once the element itself is processed
AfterElement(f, url_name, start, paths, seq_type, module_id) ==
    LET tg == tag[f.node]
        inherit == InheritSeqNum(tg, url_name)
    IN [f EXCEPT !.pc = IF tg \in TerminalTags THEN "return" ELSE "children",
                 !.url_name = url_name,
                 !.start = start,
                 !.paths = paths,
                 !.seq_type = seq_type,
                 !.the_chapter = TheChapter(tg, module_id, f.chapter),
                 !.inherit_seq_num = inherit,
                 !.seq_num = IF tg \in TerminalTags \/ inherit THEN f.seq_num ELSE 1]

\* lines 510-523: the call made for child c
ChildFrame(f, c) ==
    Frame(c, f.seq_num, f.paths, f.seq_type, f.start, f.node, f.the_chapter)

\* a loop that counts the children of every element
AfterChildCounted(f) ==
    [f EXCEPT !.k = f.k + 1, !.seq_num = f.seq_num + 1]

\* lines 524-525: the caller's loop once the call for a child has returned
AfterChild(f) ==
    [f EXCEPT !.k = f.k + 1,
              !.seq_num = IF f.inherit_seq_num THEN f.seq_num ELSE f.seq_num + 1]

Exceptions == {"IndexError", "TypeError", "UnboundLocalError", "AssertionError"}

Raise(exc) ==
    /\ status' = exc
    /\ UNCHANGED <<tag, par, attrib, policy, index, caxis, stack, emitter, probe>>

\* make_axis, lines 232-264: the course id is made from Policy.semester,
\* <metadata><policy/><grading_policy/></metadata> is appended to the root
\* (lines 246-254) and walk(cxml, ..., [1], caxis) is called
MakeAxis ==
    /\ status = "init"
    /\ IF SemesterRaises
       THEN Raise("AssertionError")
       ELSE /\ status' = "walking"
            /\ tag' = tag \o <<T_metadata, T_policy, T_grading_policy>>
            /\ par' = par \o <<1, N + 1, N + 1>>
            /\ attrib' = attrib \o <<NoAttrs, NoAttrs, NoAttrs>>
            /\ caxis' = <<>>
            /\ index' = 1
            /\ emitter' = <<>>
            /\ stack' = <<Frame(1, 1, <<>>, None, DNone, 0, None)>>
            /\ UNCHANGED <<policy, probe>>

\* walk, lines 467-506: the record is appended and the counter advanced
Emit(f, url_name, start, at2, paths, seq_type, module_id) ==
    /\ attrib' = at2
    /\ caxis' = Append(caxis,
                       Axel(course_id, index, url_name, tag[f.node],
                            ResolveFormat(at2, f.node), start, ResolveDue(at2, f.node),
                            DisplayName(at2, f.node, url_name), PathStr(paths),
                            module_id, Data(at2, f.node), f.chapter))
    /\ emitter' = Append(emitter, f.node)
    /\ index' = NextIndex(index)
    /\ stack' = [stack EXCEPT ![Len(stack)] =
                    AfterElement(f, url_name, start, paths, seq_type, module_id)]
    /\ UNCHANGED <<tag, par, policy, status, probe>>

\* walk, lines 458-465
WithPaths(f, url_name, start, at2, paths, seq_type) ==
    Emit(f, url_name, start, at2, paths, seq_type,
         ModuleId(tag[f.node], url_name, seq_type, paths))

\* walk, lines 385-456: an element with a url_name; start0 is the parsed
\* start, at2 the attributes once a bad due string is dropped
Record(f, url_name, start0, at2) ==
    IF StartRaises(start0, f.parent_start)
    THEN Raise("TypeError")
    ELSE IF PathsRaises(tag[f.node], f.paths)
    THEN /\ status' = "IndexError"
         /\ attrib' = at2
         /\ UNCHANGED <<tag, par, policy, index, caxis, stack, emitter, probe>>
    ELSE WithPaths(f, url_name, ClampStart(start0, f.parent_start), at2,
                   ComputePaths(tag[f.node], f.paths, url_name, f.seq_num),
                   ComputeSeqType(tag[f.node], f.seq_type))

\* walk, lines 476-506: an element without url_name makes no record
NoRecord(f, url_name) ==
    IF ChapterRaises(tag[f.node], url_name)
    THEN Raise("UnboundLocalError")
    ELSE /\ stack' = [stack EXCEPT ![Len(stack)] =
                         AfterElement(f, url_name, DNone, f.paths, f.seq_type, None)]
         /\ UNCHANGED <<tag, par, attrib, policy, index, caxis, status, emitter, probe>>

\* walk, lines 331-385
Element(f, url_name) ==
    IF IsHidden(attrib, f.node)
    THEN Raise("IndexError")   \* line 342: '{3}' in a format of three arguments
    ELSE IF YtidRaises(attrib, f.node)
    THEN Raise("IndexError")
    ELSE IF Truthy(url_name)
    THEN Record(f, url_name, ResolveStart(attrib, f.node), DropBadDue(attrib, f.node))
    ELSE NoRecord(f, url_name)

\* walk, lines 312-506, for the element of the innermost call
WalkElement ==
    /\ status = "walking"
    /\ stack # <<>>
    /\ stack[Len(stack)].pc = "enter"
    /\ Element(stack[Len(stack)], ResolveUrlName(attrib, stack[Len(stack)].node))

\* walk, lines 507-523: the loop over the children takes the next child
WalkChild ==
    /\ status = "walking"
    /\ stack # <<>>
    /\ LET f == stack[Len(stack)]
           ch == Children(f.node)
       IN /\ f.pc = "children"
          /\ f.k <= Len(ch)
          /\ stack' = IF IsWalked(ch[f.k])
                      THEN Append(stack, ChildFrame(f, ch[f.k]))
                      ELSE [stack EXCEPT ![Len(stack)].k = f.k + 1]
    /\ UNCHANGED <<tag, par, attrib, policy, index, caxis, status, emitter, probe>>

\* walk returns: a terminal element, or the loop over the children is over
WalkReturn ==
    /\ status = "walking"
    /\ stack # <<>>
    /\ LET f == stack[Len(stack)]
           d == Len(stack)
       IN /\ \/ f.pc = "return"
             \/ f.pc = "children" /\ f.k > Len(Children(f.node))
          /\ stack' = IF d = 1 THEN <<>>
                      ELSE [SubSeq(stack, 1, d - 1) EXCEPT ![d - 1] = AfterChild(@)]
          /\ status' = IF d = 1 THEN "done" ELSE status
    /\ UNCHANGED <<tag, par, attrib, policy, index, caxis, emitter, probe>>

-----------------------------------------------------------------------------
(* fix_duplicate_url_name_vertical *)

\* lines 573-576: the indices that share the url_name of axis[i]
SameUrlName(axis, i) == {j \in 1..Len(axis) : axis[j].url_name = axis[i].url_name}

\* a pass that renames every member of a group of duplicates
fix_duplicate_url_name_all(axis) ==
    [i \in 1..Len(axis) |->
        IF Cardinality(SameUrlName(axis, i)) # 1
        THEN [axis[i] EXCEPT !.url_name = axis[i].url_name \o S_vertical_suffix]
        ELSE axis[i]]

\* lines 578-589
fix_duplicate_url_name_vertical(axis) ==
    [i \in 1..Len(axis) |->
        IF Cardinality(SameUrlName(axis, i)) # 1 /\ axis[i].category = T_vertical
        THEN [axis[i] EXCEPT !.url_name = axis[i].url_name \o S_vertical_suffix]
        ELSE axis[i]]

\* process_course, line 616
FixDuplicates ==
    /\ status = "done"
    /\ status' = "fixed"
    /\ caxis' = fix_duplicate_url_name_vertical(caxis)
    /\ UNCHANGED <<tag, par, attrib, policy, index, stack, emitter, probe>>

-----------------------------------------------------------------------------
(* Course trees *)

NoSettings == [x \in {} |-> None]

S_term == <<"2", "0", "1", "3">>

\* the policy file always holds the course/<semester> entry
CoursePolicy == (S_course_slash \o S_term) :> NoSettings

\* the shapes of the trees of n nodes, the nodes numbered in document order:
\* the nodes between a parent and its child are descendants of the parent
ParVecs(n) ==
    {p \in [1..n -> 0..(n - 1)] :
        /\ p[1] = 0
        /\ \A i \in 2..n : p[i] >= 1 /\ p[i] < i
        /\ \A i \in 2..n : \A j \in (p[i] + 1)..(i - 1) : p[j] >= p[i]}

\* a url_name that no other node carries
Name(i) == <<"u", DigitChars[i + 1]>>

\* no direct call of Policy.get_metadata yet
NoProbe == [xml |-> 0, setting |-> "", default |-> None, parent |-> FALSE, ret |-> None]

InitRun ==
    /\ index = 1
    /\ caxis = <<>>
    /\ stack = <<>>
    /\ status = "init"
    /\ emitter = <<>>
    /\ probe = NoProbe

MaxNodes == 4

\* trees of up to MaxNodes nodes under a course root, each node with or
\* without a url_name, and no policy entry but the course's
Init ==
    /\ \E n \in 2..MaxNodes :
         /\ par \in ParVecs(n)
         /\ \E tg \in [2..n -> {T_chapter, T_sequential, T_vertical, T_problem}] :
              tag = [i \in 1..n |-> IF i = 1 THEN T_course ELSE tg[i]]
         /\ \E named \in [1..n -> BOOLEAN] :
              attrib = [i \in 1..n |->
                          [NoAttrs EXCEPT !.url_name =
                              IF named[i] THEN Name(i) ELSE None]]
    /\ policy = CoursePolicy
    /\ InitRun

Next == MakeAxis \/ WalkElement \/ WalkChild \/ WalkReturn \/ FixDuplicates

Spec == Init /\ [][Next]_vars

-----------------------------------------------------------------------------
(* Policy.get_metadata called directly *)

MaxMetaNodes == 3

MetaSettings == {"format", "hide_from_toc", "display_name"}

MetaTag(i) == IF i = 1 THEN T_course ELSE IF i = 2 THEN T_chapter
              ELSE IF i = 3 THEN T_sequential ELSE T_vertical

\* the identifier of node i sits in url_name, in url_name_orig or nowhere
\* the url_name of the course is the semester, so that its policy entry is
\* the one course/ key of the file
MetaName(i) == IF i = 1 THEN S_term ELSE Name(i)

MetaIdent(i) ==
    IF i % 3 = 1 THEN [NoAttrs EXCEPT !.url_name = MetaName(i)]
    ELSE IF i % 3 = 2 THEN [NoAttrs EXCEPT !.url_name_orig = MetaName(i)]
    ELSE NoAttrs

MetaKey(i) == MetaTag(i) \o <<"/">> \o (IF i % 3 = 0 THEN S_no_url_name ELSE MetaName(i))

\* the attribute of node i: absent, empty, 'null' or a value of its own
MetaAttr(k, i) == IF k = 0 THEN None ELSE IF k = 1 THEN <<>>
                  ELSE IF k = 2 THEN S_null ELSE <<"a", DigitChars[i + 1]>>

\* the policy file with an entry for the setting st at the nodes in withEntry
MetaPolicy(st, withEntry) ==
    [k \in {MetaKey(i) : i \in withEntry} |->
        st :> <<"p", DigitChars[(CHOOSE i \in withEntry : MetaKey(i) = k) + 1]>>]
    @@ CoursePolicy

\* trees of up to MaxMetaNodes nodes; one setting, held in probe.setting, is
\* given by attribute and by policy entry in every combination
InitMeta ==
    /\ \E n \in 1..MaxMetaNodes :
         /\ par \in ParVecs(n)
         /\ tag = [i \in 1..n |-> MetaTag(i)]
         /\ \E st \in MetaSettings :
              /\ probe = [NoProbe EXCEPT !.setting = st]
              /\ \E av \in [1..n -> 0..3] :
                   attrib = [i \in 1..n |->
                               [MetaIdent(i) EXCEPT ![st] = MetaAttr(av[i], i)]]
              /\ \E withEntry \in SUBSET (1..n) : policy = MetaPolicy(st, withEntry)
    /\ index = 1
    /\ caxis = <<>>
    /\ stack = <<>>
    /\ status = "init"
    /\ emitter = <<>>

\* a call policy.get_metadata(xml, setting, default, parent)
GetMetadata ==
    /\ status = "init"
    /\ \E xml \in Nodes, default \in {None, <<>>}, parent \in BOOLEAN :
         probe' = [xml |-> xml, setting |-> probe.setting, default |-> default,
                   parent |-> parent,
                   ret |-> get_metadata(attrib, xml, probe.setting, default, parent)]
    /\ UNCHANGED <<tag, par, attrib, policy, index, caxis, stack, status, emitter>>

NextMeta == GetMetadata

SpecMeta == InitMeta /\ [][NextMeta]_vars

-----------------------------------------------------------------------------
(* Course trees with start dates *)

S_early == <<"2", "0", "1", "3", "-", "0", "2", "-", "1", "2", "T", "1", "9", ":", "0", "0">>

S_late == <<"M", "a", "r", "c", "h", " ", "1", "3", " ", "2", "0", "1", "4">>

S_bad == <<"n", "o", "t", "-", "a", "-", "d", "a", "t", "e">>

MaxStartNodes == 3

StartValues == {None, S_early, S_late, S_bad}

\* the policy file, with or without a start for node 2
StartPolicies ==
    {CoursePolicy,
     (T_vertical \o <<"/">> \o Name(2)) :> ("start" :> S_late) @@ CoursePolicy}

\* trees of up to MaxStartNodes nodes, each node with or without a url_name
\* and with a start attribute that is absent, early, late or unparsable
InitStart ==
    /\ \E n \in 2..MaxStartNodes :
         /\ par \in ParVecs(n)
         /\ \E tg \in [2..n -> {T_sequential, T_vertical, T_problem}] :
              tag = [i \in 1..n |-> IF i = 1 THEN T_course ELSE tg[i]]
         /\ \E named \in [1..n -> BOOLEAN], st \in [1..n -> StartValues] :
              attrib = [i \in 1..n |->
                          [NoAttrs EXCEPT !.url_name = IF named[i] THEN Name(i) ELSE None,
                                          !.start = st[i]]]
    /\ policy \in StartPolicies
    /\ InitRun

SpecStart == InitStart /\ [][Next]_vars

-----------------------------------------------------------------------------
(* Course trees with hidden elements *)

S_true == <<"t", "r", "u", "e">>

MaxHideNodes == 3

HideValues == {None, S_true, S_false}

\* the policy file with a hide_from_toc entry for the nodes of DOMAIN h
HidePolicy(h) ==
    [k \in {tag[i] \o <<"/">> \o Name(i) : i \in DOMAIN h} |->
        "hide_from_toc" :> h[CHOOSE i \in DOMAIN h : tag[i] \o <<"/">> \o Name(i) = k]]
    @@ CoursePolicy

\* trees of up to MaxHideNodes named nodes; hide_from_toc is absent, 'true'
\* or 'false' as attribute and, below the root, as policy entry
InitHide ==
    /\ \E n \in 2..MaxHideNodes :
         /\ par \in ParVecs(n)
         /\ \E tg \in [2..n -> {T_chapter, T_problem}] :
              tag = [i \in 1..n |-> IF i = 1 THEN T_course ELSE tg[i]]
         /\ \E hv \in [1..n -> HideValues] :
              attrib = [i \in 1..n |->
                          [NoAttrs EXCEPT !.url_name = Name(i), !.hide_from_toc = hv[i]]]
         /\ \E withEntry \in SUBSET (2..n) :
              \E h \in [withEntry -> {S_true, S_false}] : policy = HidePolicy(h)
    /\ InitRun

SpecHide == InitHide /\ [][Next]_vars

-----------------------------------------------------------------------------
(* Course trees of videos *)

S_rates == <<"0", ".", "7", "5", ":", "a", "a", "a", ",", "1", ".", "0", ":", "b", "b", "b", ",", "1", ".", "2", "5", ":", "c", "c", "c">>

S_rate_only == <<"0", ".", "7", "5", ":", "a", "a", "a">>

S_two == <<"1", ".", "0", ":", "b", ",", " ", "1", ".", "0", ":", "c">>

S_id == <<"z", "z", "z">>

MaxVideoNodes == 3

YoutubeValues == {None, <<>>, S_rates, S_rate_only, S_two, S_1_0}

\* a video with a youtube attribute and with or without youtube_id_1_0, or
\* a problem with or without a weight
LeafNodes ==
    {<<T_video, [NoAttrs EXCEPT !.youtube = yt, !.youtube_id_1_0 = id]>> :
        yt \in YoutubeValues, id \in {None, S_id}}
    \cup {<<T_problem, [NoAttrs EXCEPT !.weight = w]>> :
             w \in {None, <<"2">>, <<"t", "e", "n">>}}

\* a named course of one named html element; its iframe, the last node,
\* lies below it, under p elements when there are nodes between the two
InitHtml ==
    \E n \in 3..(MaxVideoNodes + 1) :
       /\ par = [i \in 1..n |-> i - 1]
       /\ tag = [i \in 1..n |-> IF i = 1 THEN T_course
                                 ELSE IF i = 2 THEN T_html
                                 ELSE IF i = n THEN T_iframe ELSE T_p]
       /\ \E src \in {None, S_youtube_embed,
                       S_youtube_embed \o <<"a", "b", "c", "1", "2", "3", "?", "r", "e", "l", "=", "0">>} :
            attrib = [i \in 1..n |->
                        IF i <= 2 THEN [NoAttrs EXCEPT !.url_name = Name(i)]
                        ELSE IF i = n THEN [NoAttrs EXCEPT !.src = src]
                        ELSE NoAttrs]

\* policy files with one course/ entry, with none and with two
TermPolicies ==
    {CoursePolicy, [x \in {} |-> NoSettings],
     CoursePolicy @@ ((S_course_slash \o <<"2", "0", "1", "4">>) :> NoSettings)}

\* a named course of up to MaxVideoNodes - 1 named videos and problems, or
\* one of an html element
InitVideo ==
    /\ \/ \E n \in 2..MaxVideoNodes :
            /\ par = [i \in 1..n |-> IF i = 1 THEN 0 ELSE 1]
            /\ \E node \in [2..n -> LeafNodes] :
                 /\ tag = [i \in 1..n |-> IF i = 1 THEN T_course ELSE node[i][1]]
                 /\ attrib = [i \in 1..n |->
                                [(IF i = 1 THEN NoAttrs ELSE node[i][2])
                                    EXCEPT !.url_name = Name(i)]]
       \/ InitHtml
    /\ policy \in TermPolicies
    /\ InitRun

SpecVideo == InitVideo /\ [][Next]_vars

-----------------------------------------------------------------------------
(* Course trees with duplicate url_names *)

MaxFixNodes == 4

FixNames == {<<"a">>, <<"b">>}

\* trees of up to MaxFixNodes nodes whose url_names are drawn from two
\* names, under a course root that is named or not
InitFix ==
    /\ \E n \in 2..MaxFixNodes :
         /\ par \in ParVecs(n)
         /\ \E tg \in [2..n -> {T_chapter, T_vertical, T_problem}] :
              tag = [i \in 1..n |-> IF i = 1 THEN T_course ELSE tg[i]]
         /\ \E nm \in [2..n -> FixNames], root \in {None, <<"a">>} :
              attrib = [i \in 1..n |->
                          [NoAttrs EXCEPT !.url_name = IF i = 1 THEN root ELSE nm[i]]]
    /\ policy = CoursePolicy
    /\ InitRun

SpecFix == InitFix /\ [][Next]_vars

-----------------------------------------------------------------------------
(* Course trees with anonymous verticals and children that are not walked *)

MaxSeqNodes == 5

\* the child that the loop skips: a comment, a discussion or a source
SkipTag(i) == IF i % 3 = 0 THEN T_comment ELSE IF i % 3 = 1 THEN T_discussion ELSE T_source

\* trees of up to MaxSeqNodes nodes made of verticals, problems and skipped
\* children; every element has a url_name but the verticals, which may not
InitSeq ==
    /\ \E n \in 2..MaxSeqNodes :
         /\ par \in ParVecs(n)
         /\ \E kind \in [2..n -> {T_vertical, T_problem, T_comment}] :
              tag = [i \in 1..n |-> IF i = 1 THEN T_course
                                    ELSE IF kind[i] = T_comment THEN SkipTag(i)
                                    ELSE kind[i]]
         /\ \E named \in [1..n -> BOOLEAN] :
              /\ \A i \in 1..n : tag[i] # T_vertical => named[i]
              /\ attrib = [i \in 1..n |->
                             [NoAttrs EXCEPT !.url_name = IF named[i] THEN Name(i) ELSE None]]
    /\ policy = CoursePolicy
    /\ InitRun

SpecSeq == InitSeq /\ [][Next]_vars

-----------------------------------------------------------------------------
(* Course trees with grading formats *)

MaxFormatNodes == 3

FormatValues == {None, <<>>, S_null, <<"H", "W">>}

\* the policy file with a format entry for the nodes of withEntry
FormatPolicy(withEntry) ==
    [k \in {tag[i] \o <<"/">> \o Name(i) : i \in withEntry} |-> "format" :> <<"L", "a", "b">>]
    @@ CoursePolicy

\* trees of up to MaxFormatNodes named nodes; the format attribute is absent,
\* empty, 'null' or a label, and below the root the policy file has a format
\* entry or not
InitFormat ==
    /\ \E n \in 2..MaxFormatNodes :
         /\ par \in ParVecs(n)
         /\ \E tg \in [2..n -> {T_vertical, T_problem}] :
              tag = [i \in 1..n |-> IF i = 1 THEN T_course ELSE tg[i]]
         /\ \E fv \in [1..n -> FormatValues] :
              attrib = [i \in 1..n |->
                          [NoAttrs EXCEPT !.url_name = Name(i), !.format = fv[i]]]
         /\ \E withEntry \in SUBSET (2..n) : policy = FormatPolicy(withEntry)
    /\ InitRun

SpecFormat == InitFormat /\ [][Next]_vars

-----------------------------------------------------------------------------
(* Course trees with due dates *)

MaxDueNodes == 3

\* the due attribute of the course: absent or a date
CourseDueValues == {None, S_late}

\* the due attribute below the course: absent, an earlier date, unparsable
\* or 'null'
DueValues == {None, S_early, S_bad, S_null}

\* the policy file, with or without a due for the vertical u2
DuePolicies ==
    {CoursePolicy,
     (T_vertical \o <<"/">> \o Name(2)) :> ("due" :> <<"M", "a", "y", " ", "1", " ", "2", "0", "1", "5">>)
         @@ CoursePolicy}

\* trees of up to MaxDueNodes nodes, verticals with problems as leaves; the
\* verticals are with or without a url_name, the course and the problems
\* have one; the due attribute of the course is absent or a date, the due
\* attribute of every other node is absent, an earlier date, unparsable or
\* 'null'
InitDue ==
    /\ \E n \in 2..MaxDueNodes :
         /\ par \in ParVecs(n)
         /\ tag = [i \in 1..n |-> IF i = 1 THEN T_course
                                  ELSE IF \E j \in 1..n : par[j] = i THEN T_vertical
                                  ELSE T_problem]
         /\ \E named \in [1..n -> BOOLEAN], dv \in [1..n -> DueValues \cup CourseDueValues] :
              /\ \A i \in 1..n : tag[i] # T_vertical => named[i]
              /\ dv[1] \in CourseDueValues
              /\ \A i \in 2..n : dv[i] \in DueValues
              /\ attrib = [i \in 1..n |->
                             [NoAttrs EXCEPT !.url_name = IF named[i] THEN Name(i) ELSE None,
                                             !.due = dv[i]]]
    /\ policy \in DuePolicies
    /\ InitRun

SpecDue == InitDue /\ [][Next]_vars

-----------------------------------------------------------------------------
(* The tree as the claims speak of it *)

Resolved(n) == Truthy(ResolveUrlName(attrib, n))

UrlName(n) == ResolveUrlName(attrib, n)

\* the strict ancestors of n, nearest first
RECURSIVE Ancestors(_)
Ancestors(n) == IF par[n] = 0 THEN <<>> ELSE <<par[n]>> \o Ancestors(par[n])

ChapterAncestors(n) == SelectSeq(Ancestors(n), LAMBDA a : tag[a] = T_chapter)

HasChapter(n) == ChapterAncestors(n) # <<>>

NearestChapter(n) == ChapterAncestors(n)[1]

EmittedAncestors(n) == SelectSeq(Ancestors(n), LAMBDA a : Resolved(a))

\* the walked children of n that come before child c
WalkedBefore(c) == {m \in Nodes : par[m] = par[c] /\ m < c /\ IsWalked(m)}

\* the seq_num with which n is visited
RECURSIVE SeqNum(_)
SeqNum(n) ==
    IF par[n] = 0 THEN 1
    ELSE IF tag[par[n]] = T_vertical /\ ~Resolved(par[n]) THEN SeqNum(par[n])
    ELSE Cardinality(WalkedBefore(n)) + 1

\* the path of n as a list; a node without url_name hands on what it was given
RECURSIVE PathList(_)
PathList(n) ==
    LET inherited == IF par[n] = 0 THEN <<>> ELSE PathList(par[n])
    IN IF ~Resolved(n) THEN inherited
       ELSE IF tag[n] = T_chapter THEN <<UrlName(n)>>
       ELSE IF tag[n] \in SeqTags THEN <<inherited[1], UrlName(n)>>
       ELSE inherited \o <<Str(SeqNum(n))>>

\* the nodes in pre-order, depth first, without the pruned subtrees, the
\* children of terminal elements and the children that are not walked
RECURSIVE PreOrder(_)
RECURSIVE PreOrderAll(_)
PreOrder(n) ==
    IF IsHidden(attrib, n) THEN <<>>
    ELSE <<n>> \o (IF tag[n] \in TerminalTags THEN <<>> ELSE PreOrderAll(Children(n)))

PreOrderAll(cs) ==
    IF cs = <<>> THEN <<>>
    ELSE (IF IsWalked(cs[1]) THEN PreOrder(cs[1]) ELSE <<>>) \o PreOrderAll(Tail(cs))

ExpectedOrder == SelectSeq(PreOrder(1), Resolved)

IsPrefix(a, b) == Len(a) <= Len(b) /\ SubSeq(b, 1, Len(a)) = a

Aborted == status \in Exceptions

Finished == status \in {"done", "fixed"}

-----------------------------------------------------------------------------
(* Claims *)

\* C1: the index fields of the records, in list order, are 1, 2, ..., N with
\* no repeat and no gap, the counter stands at N+1, a node without record
\* consumes no index, and the records come in the pre-order, depth-first
\* order of the emitting nodes; when walk has returned all of them are there.
C1_IndexContiguous ==
    /\ Len(emitter) = Len(caxis)
    /\ \A i \in 1..Len(caxis) :
          /\ caxis[i].index = i
          /\ caxis[i].category = tag[emitter[i]]
          /\ Resolved(emitter[i])
    /\ index = Len(caxis) + 1
    /\ IsPrefix(emitter, ExpectedOrder)
    /\ Finished => emitter = ExpectedOrder

\* a finished walk of a course of four nodes, with the three of the metadata
\* seven, where one node of the course made no record
C1_Witness ==
    /\ status = "done"
    /\ N = 7
    /\ Len(caxis) = 3
    /\ \E n \in Nodes : ~Resolved(n) /\ n < emitter[3]

\* C5: a chapter's path is [url_name]; a container's path is [url_name of
\* its enclosing chapter, own url_name]; any other node's path is the path
\* handed down by its parent with str(seq_num) appended; and the path a call
\* works with is never changed by the calls for its children.
C5_Paths ==
    /\ \A i \in 1..Len(caxis) :
          LET n == emitter[i]
          IN IF tag[n] = T_chapter
             THEN caxis[i].path = PathStr(<<UrlName(n)>>)
             ELSE IF tag[n] \in SeqTags
             THEN /\ HasChapter(n)
                  /\ caxis[i].path = PathStr(<<UrlName(NearestChapter(n)), UrlName(n)>>)
             ELSE caxis[i].path =
                     PathStr((IF par[n] = 0 THEN <<>> ELSE PathList(par[n]))
                             \o <<Str(SeqNum(n))>>)
    /\ \A d \in 1..Len(stack) :
          LET f == stack[d]
          IN IF f.pc = "enter"
             THEN f.paths = (IF f.parent = 0 THEN <<>> ELSE PathList(f.parent))
             ELSE f.paths = PathList(f.node)

\* C5, with the container that no chapter encloses: a chapter's path is
\* [url_name]; a container's path is [url_name of its enclosing chapter, own
\* url_name] when a chapter encloses it, and else [first segment of the path
\* handed down by its parent, own url_name]; any other node's path is the
\* path handed down by its parent with str(seq_num) appended; and the path a
\* call works with is never changed by the calls for its children.
C5_PathsChapterOrNot ==
    /\ \A i \in 1..Len(caxis) :
          LET n == emitter[i]
          IN IF tag[n] = T_chapter
             THEN caxis[i].path = PathStr(<<UrlName(n)>>)
             ELSE IF tag[n] \in SeqTags
             THEN IF HasChapter(n)
                  THEN caxis[i].path = PathStr(<<UrlName(NearestChapter(n)), UrlName(n)>>)
                  ELSE /\ PathList(par[n]) # <<>>
                       /\ caxis[i].path = PathStr(<<PathList(par[n])[1], UrlName(n)>>)
             ELSE caxis[i].path =
                     PathStr((IF par[n] = 0 THEN <<>> ELSE PathList(par[n]))
                             \o <<Str(SeqNum(n))>>)
    /\ \A d \in 1..Len(stack) :
          LET f == stack[d]
          IN IF f.pc = "enter"
             THEN f.paths = (IF f.parent = 0 THEN <<>> ELSE PathList(f.parent))
             ELSE f.paths = PathList(f.node)

\* a finished walk with the record of a container below a chapter and the
\* record of a container that no chapter encloses, whose path starts with
\* the position of the course
C5_Witness ==
    /\ status = "done"
    /\ \E i \in 1..Len(caxis) :
          /\ tag[emitter[i]] \in SeqTags
          /\ HasChapter(emitter[i])
    /\ \E i \in 1..Len(caxis) :
          /\ tag[emitter[i]] \in SeqTags
          /\ ~HasChapter(emitter[i])
          /\ caxis[i].path = PathStr(<<Str(1), UrlName(emitter[i])>>)

\* C6: a node without url_name never aborts the walk, makes no record,
\* leaves the counter alone, and its children are visited all the same.
C6_NoUrlNameNeverAborts ==
    /\ Aborted => Resolved(stack[Len(stack)].node)
    /\ \A i \in 1..Len(emitter) : Resolved(emitter[i])
    /\ index = Len(caxis) + 1
    /\ Finished => emitter = ExpectedOrder

\* C7: chapter_mid is the module_id of the record of the nearest chapter
\* that is a strict ancestor, and None when there is no such chapter.
C7_ChapterMid ==
    \A i \in 1..Len(caxis) :
       LET n == emitter[i]
       IN IF HasChapter(n)
          THEN \E j \in 1..(i - 1) :
                  /\ emitter[j] = NearestChapter(n)
                  /\ caxis[i].chapter_mid = caxis[j].module_id
          ELSE caxis[i].chapter_mid = None

\* a record two levels below its chapter, and a chapter inside a chapter
C7_Witness ==
    /\ status = "done"
    /\ \E i \in 1..Len(caxis) :
          /\ HasChapter(emitter[i])
          /\ par[emitter[i]] # NearestChapter(emitter[i])
    /\ \E i \in 1..Len(caxis) :
          /\ tag[emitter[i]] = T_chapter
          /\ HasChapter(emitter[i])
          /\ caxis[i].chapter_mid # caxis[i].module_id

\* the nodes a lookup from n may read: n, its parent, and so on up to the root
Chain(n) == <<n>> \o Ancestors(n)

OverlayHas(n, setting) ==
    PKey(attrib, n) \in DOMAIN policy /\ setting \in DOMAIN policy[PKey(attrib, n)]

OverlayValue(n, setting) == policy[PKey(attrib, n)][setting]

\* (a): the own attribute counts, on an ancestor probe only
AttrCounts(c, k, setting, parent) ==
    (k > 1 \/ parent) /\ attrib[c[k]][setting] \notin {None, S_null, <<>>}

HasValueAt(c, k, setting, parent) ==
    AttrCounts(c, k, setting, parent) \/ OverlayHas(c[k], setting)

ValueAt(c, k, setting, parent) ==
    IF AttrCounts(c, k, setting, parent) THEN attrib[c[k]][setting]
    ELSE OverlayValue(c[k], setting)

FoundLevels(c, setting, parent) ==
    {k \in 1..Len(c) : HasValueAt(c, k, setting, parent)}

FirstLevel(c, setting, parent) ==
    CHOOSE k \in FoundLevels(c, setting, parent) :
        \A j \in FoundLevels(c, setting, parent) : k <= j

Probed == probe.xml # 0

\* C4: for an inheritable setting get_metadata returns the first value found
\* among (a) the own attribute, on an ancestor probe and when it is not
\* None, 'null' or empty, and (b) the overlay entry, at the node, then at its
\* parent, and so on up to the root; for any other setting it returns the
\* node's own overlay entry or else default, whatever the ancestors hold.
C4_LookupOrder ==
    Probed =>
       LET c == Chain(probe.xml)
       IN IF probe.setting \in InheritedSettings
          THEN FoundLevels(c, probe.setting, probe.parent) # {} =>
                  probe.ret = ValueAt(c, FirstLevel(c, probe.setting, probe.parent),
                                      probe.setting, probe.parent)
          ELSE probe.ret = (IF OverlayHas(probe.xml, probe.setting)
                            THEN OverlayValue(probe.xml, probe.setting)
                            ELSE probe.default)

\* an ancestor probe that passes an empty own attribute and an own overlay
\* entry's absence, and takes the parent's attribute though the parent has
\* an overlay entry too
C4_Witness ==
    /\ Probed
    /\ probe.parent
    /\ probe.setting = "format"
    /\ attrib[probe.xml]["format"] = <<>>
    /\ ~OverlayHas(probe.xml, "format")
    /\ par[probe.xml] # 0
    /\ OverlayHas(par[probe.xml], "format")
    /\ probe.ret = attrib[par[probe.xml]]["format"]
    /\ probe.ret \notin {None, S_null, <<>>}

\* C10: a lookup of an inheritable setting that finds no qualifying
\* attribute and no overlay entry up to the root returns the caller's default.
C10_DefaultAtRoot ==
    (/\ Probed
     /\ probe.setting \in InheritedSettings
     /\ FoundLevels(Chain(probe.xml), probe.setting, probe.parent) = {})
    => probe.ret = probe.default

\* the record of node n, when it has one
RecordOf(n) == caxis[CHOOSE i \in 1..Len(emitter) : emitter[i] = n]

\* C2: the start of a record is not earlier than the start of the record of
\* the nearest ancestor that made a record, whenever that start is not None,
\* also when nodes without record lie in between.
C2_StartNotBeforeAncestor ==
    \A i \in 1..Len(caxis) :
       LET up == EmittedAncestors(emitter[i])
       IN (up # <<>> /\ RecordOf(up[1]).start # DNone /\ caxis[i].start # DNone)
          => ~TupleLess(caxis[i].start, RecordOf(up[1]).start)

\* the element and all its ancestors are visible
RECURSIVE Visible(_)
Visible(n) ==
    /\ ~IsHidden(attrib, n)
    /\ par[n] # 0 => Visible(par[n])

\* C3: an element whose hide_from_toc resolves to a value other than 'false'
\* makes no record, nor does any descendant, and the walk goes on with the
\* following siblings: every visible node with a url_name is emitted.
C3_HiddenPruned ==
    /\ \A i \in 1..Len(emitter) : Visible(emitter[i])
    /\ (stack # <<>> /\ IsHidden(attrib, stack[Len(stack)].node)) => ~Aborted
    /\ Finished => emitter = ExpectedOrder

\* the rate:id entries of a youtube attribute, as lists <<rate, id, ...>>
RateEntries(y) ==
    LET parts == Split(ReplaceChar(y, " ", <<>>), ",")
    IN [i \in 1..Len(parts) |-> Split(parts[i], ":")]

NormalEntries(y) == {i \in 1..Len(RateEntries(y)) : RateEntries(y)[i][1] = S_1_0}

\* the identifier the claim names for a video element, None when there is none
ClaimedYtid(n) ==
    LET y == attrib[n]["youtube"]
        first == CHOOSE i \in NormalEntries(y) : \A j \in NormalEntries(y) : i <= j
        id == attrib[n]["youtube_id_1_0"]
    IN IF Truthy(y) /\ NormalEntries(y) # {} /\ Len(RateEntries(y)[first]) >= 2
       THEN RateEntries(y)[first][2]
       ELSE IF Truthy(id) THEN id ELSE None

\* C9: the data of a video record is {"ytid": "<id>"} with <id> the
\* identifier of the first 1.0 entry of the youtube attribute, or else the
\* youtube_id_1_0 attribute; without either the record has no ytid payload.
C9_VideoData ==
    \A i \in 1..Len(caxis) :
       tag[emitter[i]] = T_video =>
          IF ClaimedYtid(emitter[i]) = None
          THEN ~Truthy(caxis[i].data)
          ELSE caxis[i].data = YtidBlob(ClaimedYtid(emitter[i]))

\* the records other than i that carry the url_name of record i
Others(axis, i) == {j \in 1..Len(axis) : j # i /\ axis[j].url_name = axis[i].url_name}

OtherFields == {"course_id", "index", "category", "gformat", "start", "due",
                "name", "path", "module_id", "data", "chapter_mid"}

\* C8: fix_duplicate_url_name_vertical appends _vertical to the url_name of
\* every vertical record whose url_name another record carries, leaves every
\* other url_name and every other field as it is, and keeps length and order.
C8_FixDuplicates ==
    [][(status = "done" /\ status' = "fixed") =>
         /\ Len(caxis') = Len(caxis)
         /\ \A i \in 1..Len(caxis) :
               /\ \A fld \in OtherFields : caxis'[i][fld] = caxis[i][fld]
               /\ caxis'[i].url_name =
                     IF Others(caxis, i) # {} /\ caxis[i].category = T_vertical
                     THEN caxis[i].url_name \o S_vertical_suffix
                     ELSE caxis[i].url_name]_vars

\* after the pass: a renamed vertical, a record of another category that
\* shared its url_name and kept it, and a vertical with a url_name of its own
C8_Witness ==
    /\ status = "fixed"
    /\ \E i, j, k \in 1..Len(caxis) :
          /\ caxis[i].category = T_vertical
          /\ caxis[i].url_name = UrlName(emitter[i]) \o S_vertical_suffix
          /\ caxis[j].category # T_vertical
          /\ UrlName(emitter[j]) = UrlName(emitter[i])
          /\ caxis[j].url_name = UrlName(emitter[j])
          /\ caxis[k].category = T_vertical
          /\ caxis[k].url_name = UrlName(emitter[k])

\* C11: every call of walk gets the seq_num of its position: the seq_num of
\* the caller when the caller is a vertical without url_name, and otherwise
\* one more than the number of walked children before it; comment,
\* discussion and source children are never walked and never counted.
C11_SeqNum ==
    \A j \in 1..Len(stack) :
       /\ j > 1 => IsWalked(stack[j].node) /\ stack[j].parent = stack[j - 1].node
       /\ stack[j].pc = "enter" => stack[j].seq_num = SeqNum(stack[j].node)
       /\ (j > 1 /\ stack[j].pc = "enter") =>
             stack[j].seq_num =
                IF tag[stack[j - 1].node] = T_vertical /\ ~Resolved(stack[j - 1].node)
                THEN SeqNum(stack[j - 1].node)
                ELSE Cardinality(WalkedBefore(stack[j].node)) + 1

\* the second walked child of a vertical without url_name is entered with
\* the seq_num 2 that the vertical, a second walked child itself, was given
C11_Witness ==
    /\ Len(stack) = 3
    /\ stack[3].pc = "enter"
    /\ stack[3].seq_num = 2
    /\ tag[stack[2].node] = T_vertical
    /\ ~Resolved(stack[2].node)
    /\ Cardinality(WalkedBefore(stack[2].node)) = 1
    /\ Cardinality(WalkedBefore(stack[3].node)) = 1

\* the gformat the claim names: the non-probe lookup of format, and the
\* plain walk up the ancestors' attributes when that lookup is empty
ClaimedFormat(n) ==
    LET looked == get_metadata(attrib, n, "format", <<>>, FALSE)
    IN IF Truthy(looked) THEN looked ELSE get_from_parent(attrib, n, "format", <<>>)

\* C12: the gformat of a record is the value of the non-probe lookup of
\* format (own overlay entry, then the ancestors' attributes and overlay
\* entries), and only when that is empty the nearest ancestor's format
\* attribute; the node's overlay entry goes ahead of any attribute.
C12_GFormat ==
    \A i \in 1..Len(caxis) :
       IF Truthy(ClaimedFormat(emitter[i]))
       THEN caxis[i].gformat = ClaimedFormat(emitter[i])
       ELSE ~Truthy(caxis[i].gformat)

\* the attributes without the due strings that match no date format
WithoutBadDue(at) ==
    [n \in Nodes |-> IF date_parse(at[n]["due"], TRUE) = Bad
                     THEN [at[n] EXCEPT !["due"] = None]
                     ELSE at[n]]

\* C13: a due attribute that matches no date format does not take part in
\* inheritance: the due of every record is the one resolved, without
\* clamping, on the tree in which no node carries such an attribute.
C13_BadDueCleared ==
    LET clean == WithoutBadDue(attrib)
    IN \A i \in 1..Len(caxis) :
          caxis[i].due = date_parse(get_metadata(clean, emitter[i], "due", <<>>, TRUE), FALSE)

\* the attributes without the bad due strings of the nodes that make a
\* record, among the first k nodes
RECURSIVE WithoutBadDueOnEmit(_, _)
WithoutBadDueOnEmit(at, k) ==
    IF k = 0 THEN at
    ELSE IF Resolved(k) /\ date_parse(at[k]["due"], TRUE) = Bad
    THEN [WithoutBadDueOnEmit(at, k - 1) EXCEPT ![k]["due"] = None]
    ELSE WithoutBadDueOnEmit(at, k - 1)

\* the lookup of due finds a value at m: an attribute that counts or an
\* entry of the policy file
DueFound(at, m) ==
    \/ at[m]["due"] \notin {None, S_null, <<>>}
    \/ PKey(at, m) \in DOMAIN policy /\ "due" \in DOMAIN policy[PKey(at, m)]

\* the lookup of due that starts at n comes to the ancestor a of n
DueReaches(at, n, a) ==
    /\ \E k \in 1..Len(Ancestors(n)) : Ancestors(n)[k] = a
    /\ ~DueFound(at, n)
    /\ \A k \in 1..Len(Ancestors(n)) :
          (\E l \in (k + 1)..Len(Ancestors(n)) : Ancestors(n)[l] = a)
             => ~DueFound(at, Ancestors(n)[k])

\* C13, for the nodes that make a record: the bad due attribute of a node
\* with a resolved url_name does not take part in inheritance; the due of
\* every record is the one resolved, without clamping, on the tree in which
\* no such node carries a bad due attribute.  A node without record keeps
\* its due attribute: when the lookup of a record comes to such a node with
\* a bad due other than 'null', the record has no due, and a 'null' on such
\* a node counts as an absent attribute does.
C13_BadDueClearedOnEmit ==
    LET clean == WithoutBadDueOnEmit(attrib, N)
    IN \A i \in 1..Len(caxis) :
          /\ caxis[i].due = date_parse(get_metadata(clean, emitter[i], "due", <<>>, TRUE), FALSE)
          /\ \A a \in Nodes :
                /\ (/\ ~Resolved(a)
                    /\ attrib[a]["due"] # S_null
                    /\ DueReaches(clean, emitter[i], a)
                    /\ date_parse(attrib[a]["due"], TRUE) = Bad)
                   => caxis[i].due = DNone
                /\ (~Resolved(a) /\ attrib[a]["due"] = S_null)
                   => caxis[i].due =
                         date_parse(get_metadata([clean EXCEPT ![a]["due"] = None],
                                                 emitter[i], "due", <<>>, TRUE), FALSE)

\* a record without due attribute of its own, under a parent whose bad due
\* was cleared when its record was made, takes the due found above the parent
C13_Witness ==
    \E i \in 1..Len(caxis) :
       LET n == emitter[i]
       IN /\ par[n] # 0
          /\ par[par[n]] # 0
          /\ Resolved(par[n])
          /\ attrib[par[n]]["due"] = <<>>
          /\ attrib[n]["due"] = None
          /\ caxis[i].due # DNone
          /\ caxis[i].due = date_parse(attrib[par[par[n]]]["due"], FALSE)

=============================================================================
